---- MODULE Spec2Model ----
(***************************************************************************)
(* Session / conversation state model of Junior_Doctor (src/main.py).      *)
(*                                                                         *)
(* One Streamlit session: st.session_state.history (a list of references   *)
(* to consultation dicts), st.session_state.current_view (a reference or   *)
(* None), and the dicts themselves, kept in `heap` so that aliasing        *)
(* between the history list and the active view is explicit.  Every        *)
(* script run is triggered by one widget interaction; each action below    *)
(* is one such run.  `last` is the observation of the latest run: the      *)
(* form inputs it read, the call it made to the inference collaborator     *)
(* and the outcome of that call.                                           *)
(***************************************************************************)
EXTENDS Integers, Sequences, FiniteSets, TLC

VARIABLES history, current_view, heap, last, ncalls

vars == <<history, current_view, heap, last, ncalls>>

\* ---------------------------------------------------------------- bounds
\* Inference calls made in one session.
MaxCalls == 3

\* ------------------------------------------------------- python values
\* Optional values: None is the empty set, a present value v is {v}.
None == {}
Some(v) == {v}
Val(o) == CHOOSE v \in o : TRUE

Range(s) == {s[i] : i \in DOMAIN s}

\* ------------------------------------------------------- widget inputs
\* st.radio options (the trailing emoji of each label is left out: the
\* module is ASCII), and the ones the model selects.
Modes == {"Diagnostic", "Traduction", "Explication"}
SelectedModes == {m \in Modes : m \in {"Diagnostic", "Traduction"}}
\* st.selectbox options, and the ones the model selects.
Languages == {"Python", "C++", "JS", "Go", "Rust"}
SelectedLanguages == {l \in Languages : l \in {"Python", "Rust"}}
\* Text pasted in the text area (empty when nothing was pasted).
CodeTexts == {"", "x = 1"}
\* Bytes returned by the camera widget.
Images == {<<255, 216, 255, 224>>}
\* Text typed in the chat input (st.chat_input never returns "").
UserTexts == {"A", "B"}
\* Contents the inference collaborator may return.
Replies == {"R1", "R2"}
\* datetime.now().strftime("%H:%M")
Times == {"10:00"}

\* render_sidebar: (mode, target_lang, lang_label) combinations.
TargetLangs(mode) == IF mode = "Traduction" THEN {Some(l) : l \in SelectedLanguages} ELSE {None}
lang_label(mode, target_lang) ==
    IF mode = "Traduction" THEN <<"Traduction vers ", Val(target_lang)>> ELSE <<mode>>

\* ------------------------------------------------------------ messages
\* A str content is a sequence of f-string fragments; a list content is
\* the two typed parts of a multimodal message (text, image_url).
StrContent(s) == [kind |-> "str", text |-> s, url |-> <<>>]
ListContent(text, url) == [kind |-> "list", text |-> text, url |-> url]
SystemMessage(c) == [role |-> "system", content |-> c]
HumanMessage(c) == [role |-> "user", content |-> c]
AIMessage(c) == [role |-> "assistant", content |-> c]

\* True when some fragment of the rendered string is exactly `name`.
Contains(s, name) == \E i \in DOMAIN s : s[i] = name

\* --------------------------------------------------------------- base64
B64Alphabet ==
    <<"A","B","C","D","E","F","G","H","I","J","K","L","M","N","O","P",
      "Q","R","S","T","U","V","W","X","Y","Z","a","b","c","d","e","f",
      "g","h","i","j","k","l","m","n","o","p","q","r","s","t","u","v",
      "w","x","y","z","0","1","2","3","4","5","6","7","8","9","+","/">>
B64Char(n) == B64Alphabet[n + 1]

RECURSIVE encode_image(_)
encode_image(bs) ==
    IF Len(bs) = 0 THEN <<>>
    ELSE IF Len(bs) = 1 THEN
        <<B64Char(bs[1] \div 4), B64Char((bs[1] % 4) * 16), "=", "=">>
    ELSE IF Len(bs) = 2 THEN
        <<B64Char(bs[1] \div 4),
          B64Char((bs[1] % 4) * 16 + bs[2] \div 16),
          B64Char((bs[2] % 16) * 4), "=">>
    ELSE
        <<B64Char(bs[1] \div 4),
          B64Char((bs[1] % 4) * 16 + bs[2] \div 16),
          B64Char((bs[2] % 16) * 4 + bs[3] \div 64),
          B64Char(bs[3] % 64)>> \o encode_image(SubSeq(bs, 4, Len(bs)))

\* ------------------------------------------------------ inference call
\* get_ai_response: the model name chosen from has_image.
ModelFor(has_image) ==
    IF has_image THEN "llama-3.2-11b-vision-preview" ELSE "llama-3.3-70b-versatile"
\* llm.invoke either returns a content or raises.
Raised == None
Outcomes == {Some(r) : r \in Replies} \cup {Raised}
\* The call as the collaborator sees it.
get_ai_response(messages, has_image) ==
    Some([model |-> ModelFor(has_image), messages |-> messages])

\* ------------------------------------------------------------ the store
\* A fresh reference for a new dict.
NewRef(h) == CHOOSE n \in 1..(Cardinality(DOMAIN h) + 1) : n \notin DOMAIN h
\* Dicts no longer referenced by the history list or the active view are gone.
Collect(h, hist, view) == [r \in (DOMAIN h) \cap (Range(hist) \cup view) |-> h[r]]

\* bool(st.session_state.current_view): None is falsy, a session dict
\* (five keys) is truthy.
Truthy(view) == view # None

\* The observation of a run that made no inference call.
Quiet(op) ==
    [op |-> op, code_input |-> None, img_file |-> None, mode |-> None,
     target_lang |-> None, text |-> None, call |-> None, out |-> None,
     rec |-> None, pre |-> <<>>]

init_session_state ==
    /\ history = <<>>
    /\ current_view = None

Init ==
    /\ init_session_state
    /\ heap = <<>>
    /\ last = Quiet("init")
    /\ ncalls = 0

\* ------------------------------------------------------------- sidebar
\* "Nouvelle Consultation"
NewConsultation ==
    /\ current_view' = None
    /\ last' = Quiet("new")
    /\ UNCHANGED <<history, heap, ncalls>>

\* ClearAll forgetting to reset the active view.
ClearAll_KeepView ==
    /\ history' = <<>>
    /\ current_view' = current_view
    /\ heap' = Collect(heap, history', current_view')
    /\ last' = Quiet("clear")
    /\ UNCHANGED ncalls

\* "Tout effacer"
ClearAll ==
    /\ history' = <<>>
    /\ current_view' = None
    /\ heap' = Collect(heap, history', current_view')
    /\ last' = Quiet("clear")
    /\ UNCHANGED ncalls

\* A "Dossiers" button: any session of the history.
SelectHistory(i) ==
    /\ i \in DOMAIN history
    /\ current_view' = Some(history[i])
    /\ last' = Quiet("select")
    /\ UNCHANGED <<history, heap, ncalls>>

\* ---------------------------------------------------------------- chat
\* HasImg left at the default of get_ai_response's has_image parameter.
HasImg_Default(session) == FALSE

\* has_img = session.get('image_data') is not None
HasImg(session) == session.image_data # None

\* ChatInput storing the reply before the user turn it answers.
ChatInput_ReplyFirst(user_input, out) ==
    /\ Truthy(current_view)
    /\ ncalls < MaxCalls
    /\ LET ref == Val(current_view)
           session == heap[ref]
           asked == Append(session.messages, HumanMessage(StrContent(<<user_input>>)))
           answered == Append(Append(session.messages, AIMessage(StrContent(<<Val(out)>>))),
                              HumanMessage(StrContent(<<user_input>>)))
       IN  /\ heap' = [heap EXCEPT ![ref].messages =
                          IF out = Raised THEN asked ELSE answered]
           /\ last' = [Quiet("chat") EXCEPT
                          !.text = Some(user_input),
                          !.call = get_ai_response(asked, HasImg(session)),
                          !.out = out,
                          !.rec = Some(ref),
                          !.pre = session.messages]
    /\ ncalls' = ncalls + 1
    /\ UNCHANGED <<history, current_view>>

\* ChatInput appending to the most recent session instead of the active one.
ChatInput_LatestSession(user_input, out) ==
    /\ Truthy(current_view)
    /\ ncalls < MaxCalls
    /\ LET ref == history[Len(history)]
           session == heap[ref]
           asked == Append(session.messages, HumanMessage(StrContent(<<user_input>>)))
           answered == Append(asked, AIMessage(StrContent(<<Val(out)>>)))
       IN  /\ heap' = [heap EXCEPT ![ref].messages =
                          IF out = Raised THEN asked ELSE answered]
           /\ last' = [Quiet("chat") EXCEPT
                          !.text = Some(user_input),
                          !.call = get_ai_response(asked, HasImg(session)),
                          !.out = out,
                          !.rec = Some(ref),
                          !.pre = session.messages]
    /\ ncalls' = ncalls + 1
    /\ UNCHANGED <<history, current_view>>

\* CAS 1: the chat input of the active consultation.
ChatInput(user_input, out) ==
    /\ Truthy(current_view)
    /\ ncalls < MaxCalls
    /\ LET ref == Val(current_view)
           session == heap[ref]
           asked == Append(session.messages, HumanMessage(StrContent(<<user_input>>)))
           answered == Append(asked, AIMessage(StrContent(<<Val(out)>>)))
       IN  /\ heap' = [heap EXCEPT ![ref].messages =
                          IF out = Raised THEN asked ELSE answered]
           /\ last' = [Quiet("chat") EXCEPT
                          !.text = Some(user_input),
                          !.call = get_ai_response(asked, HasImg(session)),
                          !.out = out,
                          !.rec = Some(ref),
                          !.pre = session.messages]
    /\ ncalls' = ncalls + 1
    /\ UNCHANGED <<history, current_view>>

\* ------------------------------------------------------------- intake
\* The session dict built by either intake tab.
NewSession(time, summary, code_input, image_data, messages) ==
    [time |-> time, summary |-> summary, code_input |-> code_input,
     image_data |-> image_data, messages |-> messages]

\* history.append(new_session); current_view = new_session
AppendSession(ref, new_session) ==
    /\ heap' = [r \in DOMAIN heap \cup {ref} |->
                   IF r = ref THEN new_session ELSE heap[r]]
    /\ history' = Append(history, ref)
    /\ current_view' = Some(ref)

\* OPTION A: seed messages of a text consultation (<fence> stands for the
\* three backquotes of a Markdown code fence).
sys_msg(mode) == <<"Tu es expert. Mode: ", mode, ". Analyse ce code.">>
TextSeed_SystemLast(mode, code_input) ==
    <<HumanMessage(StrContent(<<"Voici le code : \n<fence>\n", code_input, "\n<fence>">>)),
      SystemMessage(StrContent(sys_msg(mode)))>>
TextSeed(mode, code_input) ==
    <<SystemMessage(StrContent(sys_msg(mode))),
      HumanMessage(StrContent(<<"Voici le code : \n<fence>\n", code_input, "\n<fence>">>))>>

\* SubmitText recording the session before the call returns.
SubmitText_RecordFirst(time, mode, target_lang, code_input, img_file, out) ==
    /\ ~Truthy(current_view)
    /\ ncalls < MaxCalls
    /\ LET initial_msgs == TextSeed(mode, code_input)
           new_session ==
               NewSession(time, lang_label(mode, target_lang) \o <<" (Txt)">>,
                          Some(code_input), None,
                          IF out = Raised THEN initial_msgs
                          ELSE Append(initial_msgs, AIMessage(StrContent(<<Val(out)>>))))
       IN  /\ last' = [Quiet("text") EXCEPT
                          !.code_input = Some(code_input),
                          !.img_file = img_file,
                          !.mode = Some(mode),
                          !.target_lang = target_lang,
                          !.call = get_ai_response(initial_msgs, FALSE),
                          !.out = out]
           /\ AppendSession(NewRef(heap), new_session)
    /\ ncalls' = ncalls + 1

\* The text tab's submit button (img_file is whatever the camera tab holds).
SubmitText(time, mode, target_lang, code_input, img_file, out) ==
    /\ ~Truthy(current_view)
    /\ ncalls < MaxCalls
    /\ LET initial_msgs == TextSeed(mode, code_input)
           new_session ==
               NewSession(time, lang_label(mode, target_lang) \o <<" (Txt)">>,
                          Some(code_input), None,
                          Append(initial_msgs, AIMessage(StrContent(<<Val(out)>>))))
       IN  /\ last' = [Quiet("text") EXCEPT
                          !.code_input = Some(code_input),
                          !.img_file = img_file,
                          !.mode = Some(mode),
                          !.target_lang = target_lang,
                          !.call = get_ai_response(initial_msgs, FALSE),
                          !.out = out]
           /\ IF out = Raised
              THEN UNCHANGED <<history, current_view, heap>>
              ELSE AppendSession(NewRef(heap), new_session)
    /\ ncalls' = ncalls + 1

\* OPTION B: the multimodal message sent for a photo.
prompt_text(mode, target_lang) ==
    <<"Regarde cette image attentivement. Elle contient du code informatique. TA MISSION : 1. Extrais le code present sur l'image. 2. Execute la requete suivante : ",
      mode, ".">>
    \o (IF target_lang # None
        THEN <<"Si Traduction, traduis vers ", Val(target_lang), ".">>
        ELSE <<"">>)
msg_content(mode, target_lang, img) ==
    ListContent(prompt_text(mode, target_lang),
                <<"data:image/jpeg;base64,">> \o encode_image(img))
\* The simplified user turn kept for the history, with the reply.
clean_msgs(resp) ==
    <<HumanMessage(StrContent(<<"[Photo du code envoyee]">>)),
      AIMessage(StrContent(<<resp>>))>>

\* SubmitImage storing the messages it sent instead of the simplified ones.
SubmitImage_KeepPayload(time, mode, target_lang, img_file, out) ==
    /\ ~Truthy(current_view)
    /\ img_file # None
    /\ ncalls < MaxCalls
    /\ LET initial_msgs == <<HumanMessage(msg_content(mode, target_lang, Val(img_file)))>>
           new_session ==
               NewSession(time, lang_label(mode, target_lang) \o <<" (Cam)">>,
                          None, Some(Val(img_file)),
                          Append(initial_msgs, AIMessage(StrContent(<<Val(out)>>))))
       IN  /\ last' = [Quiet("image") EXCEPT
                          !.img_file = img_file,
                          !.mode = Some(mode),
                          !.target_lang = target_lang,
                          !.call = get_ai_response(initial_msgs, TRUE),
                          !.out = out]
           /\ IF out = Raised
              THEN UNCHANGED <<history, current_view, heap>>
              ELSE AppendSession(NewRef(heap), new_session)
    /\ ncalls' = ncalls + 1

\* The camera tab's submit button, shown only when img_file is not None.
SubmitImage(time, mode, target_lang, img_file, out) ==
    /\ ~Truthy(current_view)
    /\ img_file # None
    /\ ncalls < MaxCalls
    /\ LET initial_msgs == <<HumanMessage(msg_content(mode, target_lang, Val(img_file)))>>
           new_session ==
               NewSession(time, lang_label(mode, target_lang) \o <<" (Cam)">>,
                          None, Some(Val(img_file)), clean_msgs(Val(out)))
       IN  /\ last' = [Quiet("image") EXCEPT
                          !.img_file = img_file,
                          !.mode = Some(mode),
                          !.target_lang = target_lang,
                          !.call = get_ai_response(initial_msgs, TRUE),
                          !.out = out]
           /\ IF out = Raised
              THEN UNCHANGED <<history, current_view, heap>>
              ELSE AppendSession(NewRef(heap), new_session)
    /\ ncalls' = ncalls + 1

\* The intake form as the widgets can present it.
FormInputs ==
    {f \in [time : Times, mode : SelectedModes,
            target_lang : {None} \cup {Some(l) : l \in SelectedLanguages},
            code_input : CodeTexts,
            img_file : {None} \cup {Some(b) : b \in Images}] :
        f.target_lang \in TargetLangs(f.mode)}

Next ==
    \/ NewConsultation
    \/ ClearAll
    \/ \E i \in 1..MaxCalls : SelectHistory(i)
    \/ \E t \in UserTexts, out \in Outcomes : ChatInput(t, out)
    \/ \E f \in FormInputs, out \in Outcomes :
          SubmitText(f.time, f.mode, f.target_lang, f.code_input, f.img_file, out)
    \/ \E f \in FormInputs, out \in Outcomes :
          SubmitImage(f.time, f.mode, f.target_lang, f.img_file, out)

Spec == Init /\ [][Next]_vars

\* =============================================================== claims
Store == <<history, current_view, heap>>
VisionModel == ModelFor(TRUE)
Placeholder == HumanMessage(StrContent(<<"[Photo du code envoyee]">>))
\* The origin of a session, read from the tab suffix of its summary.
FromImage(session) == session.summary[Len(session.summary)] = " (Cam)"
NonSystem(msgs) == SelectSeq(msgs, LAMBDA m : m.role # "system")
Alternates(turns) ==
    /\ Len(turns) % 2 = 0
    /\ \A i \in DOMAIN turns : turns[i].role = (IF i % 2 = 1 THEN "user" ELSE "assistant")
EndsWith(msgs, tail) ==
    /\ Len(msgs) >= Len(tail)
    /\ SubSeq(msgs, Len(msgs) - Len(tail) + 1, Len(msgs)) = tail
Turn(role, text) == [role |-> role, content |-> StrContent(<<text>>)]

\* C1: when the inference call of a new consultation (text or image) raises,
\* the run leaves the history list, the active view and every session dict
\* exactly as they were.
C1_NoRecordOnFirstCallFailure ==
    [][(last'.op \in {"text", "image"} /\ last'.out = Raised) => UNCHANGED Store]_vars
C1_Witness ==
    /\ last.op \in {"text", "image"}
    /\ last.out = Raised
    /\ Len(history) >= 1

\* C2: submitting the intake form with no text and no image makes no
\* inference call and leaves the history and the active view unchanged.
C2_EmptySubmissionIsNoOp ==
    [][(last'.op \in {"text", "image"} /\ last'.code_input = Some("") /\ last'.img_file = None)
          => (last'.call = None /\ UNCHANGED Store)]_vars

\* C3: two consecutive answered chat runs on the same session, with texts A
\* then B and replies R1 then R2, leave its messages equal to what they were
\* before the first run followed by user:A, assistant:R1, user:B, assistant:R2.
C3_ChatOrder ==
    [][(/\ last.op = "chat" /\ last.out # Raised
        /\ last'.op = "chat" /\ last'.out # Raised
        /\ last'.rec = last.rec)
          => heap'[Val(last.rec)].messages =
                 last.pre \o <<Turn("user", Val(last.text)), Turn("assistant", Val(last.out)),
                               Turn("user", Val(last'.text)), Turn("assistant", Val(last'.out))>>]_vars
C3_Witness ==
    /\ last.op = "chat"
    /\ last.text = Some("B")
    /\ Len(last.pre) >= 4
    /\ EndsWith(heap[Val(last.rec)].messages,
                <<Turn("user", "A"), Turn("assistant", "R1"),
                  Turn("user", "B"), Turn("assistant", "R2")>>)

\* C4: a session created from a photo never holds a multipart (list) content
\* in its messages, its first user turn is the fixed placeholder, and its
\* image_data is the captured bytes, at creation and after every later run.
C4_ImageSessionStaysClean ==
    [][/\ \A r \in DOMAIN heap' :
            heap'[r].image_data # None =>
                /\ \A i \in DOMAIN heap'[r].messages : heap'[r].messages[i].content.kind # "list"
                /\ NonSystem(heap'[r].messages)[1] = Placeholder
       /\ (last'.op = "image" /\ last'.out # Raised) =>
              heap'[Val(current_view')].image_data = last'.img_file
       /\ \A r \in DOMAIN heap \cap DOMAIN heap' : heap'[r].image_data = heap[r].image_data]_vars
C4_Witness ==
    /\ last.op = "chat"
    /\ last.out # Raised
    /\ FromImage(heap[Val(last.rec)])
    /\ heap[Val(last.rec)].image_data \in {Some(b) : b \in Images}
    /\ Len(heap[Val(last.rec)].messages) >= 4

\* C5: the system prompt sent for a text consultation in translation mode
\* contains the source language name and the target language name.
C5_PromptNamesLanguages ==
    (last.op = "text" /\ last.mode = Some("Traduction")) =>
        LET sys == Val(last.call).messages[1].content.text
        IN  \E src \in Languages : Contains(sys, src) /\ Contains(sys, Val(last.target_lang))

\* C6: an inference call uses the vision model exactly when the session it is
\* made for comes from a photo: the first call of either tab and every chat
\* call of a session of either origin.
C6_VisionIffImageOrigin ==
    last.call # None =>
        (Val(last.call).model = VisionModel <=>
            CASE last.op = "image" -> TRUE
              [] last.op = "text" -> FALSE
              [] last.op = "chat" -> FromImage(heap[Val(last.rec)]))
C6_Witness ==
    /\ last.op = "chat"
    /\ FromImage(heap[Val(last.rec)])
    /\ Val(last.call).model = VisionModel
    /\ Len(Val(last.call).messages) >= 3

\* C7: a run that switches the active view changes no session's messages;
\* the messages of an existing session change only in a chat run, and only
\* those of the session that is the active view.
C7_OnlyChatMutatesActive ==
    [][\A r \in DOMAIN heap \cap DOMAIN heap' :
          heap'[r].messages # heap[r].messages =>
              (last'.op = "chat" /\ current_view = Some(r) /\ current_view' = Some(r))]_vars
C7_Witness ==
    /\ last.op = "select"
    /\ Len(history) >= 2
    /\ current_view = Some(history[1])
    /\ Len(heap[history[2]].messages) >= 4

\* C8: every session of the history has at least one message, and a system
\* turn occurs only as the first message.
C8_NonEmptySystemFirst ==
    \A i \in DOMAIN history :
        LET msgs == heap[history[i]].messages
        IN  /\ Len(msgs) >= 1
            /\ \A k \in DOMAIN msgs : msgs[k].role = "system" => k = 1
C8_Witness ==
    \E i \in DOMAIN history :
        LET msgs == heap[history[i]].messages
        IN  msgs[1].role = "system" /\ Len(msgs) >= 5

\* C9: between runs, also after a run whose inference call raised, the
\* non-system turns of every session alternate user, assistant, from a user
\* turn to a final assistant turn.
C9_TurnsAlternate ==
    \A i \in DOMAIN history : Alternates(NonSystem(heap[history[i]].messages))

\* C10: the active view is None or a reference held by the history list, and
\* every live session dict is held by the history list.
C10_ViewIsHistoryElement ==
    /\ current_view = None \/ Val(current_view) \in Range(history)
    /\ DOMAIN heap = Range(history)
C10_Witness ==
    /\ last.op = "chat"
    /\ Len(history) >= 2
    /\ current_view = Some(history[1])
    /\ Len(heap[history[1]].messages) >= 4
====
